---- MODULE Spec2Model ----
(***************************************************************************)
(* Model of sync_upstream.py: the upstream synchronisation tool.           *)
(*                                                                         *)
(* Strings are TLA+ strings; a character is a string of length 1, read     *)
(* with SubSeq(s, i, i).  The version-control backend (git) is an external *)
(* collaborator: its commands are recorded as they are issued, and their   *)
(* effect on the working copy follows the contract of the operations       *)
(* (checkout restores the named paths from the given reference).           *)
(***************************************************************************)
EXTENDS Integers, Sequences, FiniteSets, TLC

VARIABLES
    pc,                \* where the process blocks: a prompt, or a terminal position
    files,             \* main_loop's local `files`: the ChangeSet of this iteration
    previewIdx,        \* preview_changes' loop index idx (0 outside the loop)
    conflictFiles,     \* check_conflicts' local conflict_files while its prompt is open
    exitCode,          \* value main() returned (-1 while running)
    gitattributes,     \* content of <repo>/.gitattributes, or Absent
    driverSet,         \* git config merge.ours.driver is set in this repository
    fsMode,            \* how the file system answers a write of .gitattributes
    remoteConfigured,  \* `git remote -v` mentions upstream
    upstreamDiff,      \* lines `git diff --name-only HEAD..upstream/main` reports
    wc,                \* working copy: path -> version it holds ("conflict": unmerged)
    lastCmds,          \* backend commands issued by the last step, in order
    lastStep,          \* name of the last step taken
    answer,            \* the line the last step read at the remote, confirm or
                       \* selection prompt (locals setup, confirm, choice) or the
                       \* stripped choice it read at the menu, else ""
    mergeCode,         \* apply_all_changes' `code` of the merge (-1: no merge ran)
    fetchCode,         \* fetch_upstream's `code` in the last step (-1: no fetch ran)
    setupFailed,       \* the last _setup_merge_protection took its except branch
    attrsAtStart,      \* .gitattributes as the running process found it
    setups,            \* number of times _setup_merge_protection has run
    probe,             \* path given to the exclusion test on its own
    verdict,           \* result of the function applied on its own ("unset" before)
    raw,               \* list of paths the backend reports, given to resolve on its own
    resolved           \* get_changed_files' return value for raw

wfvars == <<pc, files, previewIdx, conflictFiles, exitCode, gitattributes, driverSet,
            fsMode, remoteConfigured, upstreamDiff, wc, lastCmds,
            lastStep, answer, mergeCode, fetchCode, setupFailed, attrsAtStart,
            setups>>
pvars == <<probe, verdict, raw, resolved>>
vars == <<wfvars, pvars>>

(***************************************************************************)
(* Characters and Python string methods                                    *)
(***************************************************************************)
Char(s, i) == SubSeq(s, i, i)

NL == "\n"
Whitespace == {" ", "\t", "\n", "\r"}

StartsWith(s, pre) == Len(pre) <= Len(s) /\ SubSeq(s, 1, Len(pre)) = pre
EndsWith(s, suf) == Len(suf) <= Len(s) /\ SubSeq(s, Len(s) - Len(suf) + 1, Len(s)) = suf

RECURSIVE LStrip(_, _)
LStrip(s, chars) ==
    IF Len(s) > 0 /\ Char(s, 1) \in chars THEN LStrip(SubSeq(s, 2, Len(s)), chars) ELSE s

RECURSIVE RStrip(_, _)
RStrip(s, chars) ==
    IF Len(s) > 0 /\ Char(s, Len(s)) \in chars
    THEN RStrip(SubSeq(s, 1, Len(s) - 1), chars) ELSE s

\* str.strip(chars)
Strip(s, chars) == RStrip(LStrip(s, chars), chars)

\* str.replace(old, new), leftmost non-overlapping occurrences
RECURSIVE Replace(_, _, _)
Replace(s, old, new) ==
    IF Len(s) = 0 THEN s
    ELSE IF StartsWith(s, old)
         THEN new \o Replace(SubSeq(s, Len(old) + 1, Len(s)), old, new)
         ELSE Char(s, 1) \o Replace(SubSeq(s, 2, Len(s)), old, new)

\* position of the first sep in s, or 0
RECURSIVE FindChar(_, _, _)
FindChar(s, sep, i) ==
    IF i > Len(s) THEN 0
    ELSE IF Char(s, i) = sep THEN i ELSE FindChar(s, sep, i + 1)

\* str.split(sep) for a one-character separator: always at least one piece
RECURSIVE Split(_, _)
Split(s, sep) ==
    LET k == FindChar(s, sep, 1) IN
    IF k = 0 THEN <<s>>
    ELSE <<SubSeq(s, 1, k - 1)>> \o Split(SubSeq(s, k + 1, Len(s)), sep)

\* sep.join(parts)
RECURSIVE Join(_, _)
Join(parts, sep) ==
    IF Len(parts) = 0 THEN ""
    ELSE IF Len(parts) = 1 THEN parts[1]
    ELSE parts[1] \o sep \o Join(Tail(parts), sep)

\* str.lower() on the letters the prompts compare against
Lower(s) ==
    CASE s = "Y" -> "y"
      [] s = "N" -> "n"
      [] s = "Q" -> "q"
      [] s = "A" -> "a"
      [] OTHER -> s

Digit == <<"1", "2", "3", "4", "5", "6", "7", "8", "9">>

\* str(i) for i >= 1
RECURSIVE IntToStr(_)
IntToStr(i) ==
    IF i < 10 THEN Digit[i]
    ELSE IntToStr(i \div 10) \o (IF i % 10 = 0 THEN "0" ELSE Digit[i % 10])

SeqToSet(s) == {s[i] : i \in 1..Len(s)}

(***************************************************************************)
(* Exclusion rules                                                         *)
(***************************************************************************)
excluded_patterns ==
    << "^\\.github/",
       "^SRAFrontend/",
       "^setup/",
       "^README\\.md$",
       "^package\\.py$",
       "^\\.gitignore$",
       "^\\.gitattributes$" >>

\* ReMatchAt with `$` taken as matching anywhere (the end anchor lost)
RECURSIVE ReMatchAtLooseEnd(_, _, _, _)
ReMatchAtLooseEnd(p, i, s, j) ==
    IF i > Len(p) THEN TRUE
    ELSE LET c == Char(p, i) IN
         CASE c = "^" -> j = 1 /\ ReMatchAtLooseEnd(p, i + 1, s, j)
           [] c = "$" -> ReMatchAtLooseEnd(p, i + 1, s, j)
           [] c = "\\" -> /\ i + 1 <= Len(p)
                          /\ j <= Len(s)
                          /\ Char(s, j) = Char(p, i + 1)
                          /\ ReMatchAtLooseEnd(p, i + 2, s, j + 1)
           [] c = "." -> /\ j <= Len(s)
                         /\ Char(s, j) # NL
                         /\ ReMatchAtLooseEnd(p, i + 1, s, j + 1)
           [] OTHER -> /\ j <= Len(s)
                       /\ Char(s, j) = c
                       /\ ReMatchAtLooseEnd(p, i + 1, s, j + 1)

\* re.match for the constructs the patterns use: ^, $, \c, ., literals.
\* i is the position in the pattern p, j the position in the string s.
RECURSIVE ReMatchAt(_, _, _, _)
ReMatchAt(p, i, s, j) ==
    IF i > Len(p) THEN TRUE
    ELSE LET c == Char(p, i) IN
         CASE c = "^" -> j = 1 /\ ReMatchAt(p, i + 1, s, j)
           [] c = "$" -> /\ \/ j = Len(s) + 1
                            \/ j = Len(s) /\ Char(s, j) = NL
                         /\ ReMatchAt(p, i + 1, s, j)
           [] c = "\\" -> /\ i + 1 <= Len(p)
                          /\ j <= Len(s)
                          /\ Char(s, j) = Char(p, i + 1)
                          /\ ReMatchAt(p, i + 2, s, j + 1)
           [] c = "." -> /\ j <= Len(s)
                         /\ Char(s, j) # NL
                         /\ ReMatchAt(p, i + 1, s, j + 1)
           [] OTHER -> /\ j <= Len(s)
                       /\ Char(s, j) = c
                       /\ ReMatchAt(p, i + 1, s, j + 1)

ReMatch(p, s) == ReMatchAt(p, 1, s, 1)

\* ExcludeScan stopping after the directory rules
RECURSIVE ExcludeScanDirsOnly(_, _)
ExcludeScanDirsOnly(file, k) ==
    IF k > 3 THEN FALSE
    ELSE IF ReMatchAt(excluded_patterns[k], 1, file, 1) THEN TRUE
    ELSE ExcludeScanDirsOnly(file, k + 1)

\* the inner loop of get_changed_files: scan the patterns in order, stop at the
\* first match
RECURSIVE ExcludeScan(_, _)
ExcludeScan(file, k) ==
    IF k > Len(excluded_patterns) THEN FALSE
    ELSE IF ReMatch(excluded_patterns[k], file) THEN TRUE
    ELSE ExcludeScan(file, k + 1)

is_excluded(file) == ExcludeScan(file, 1)

\* pattern.strip('^$').replace(r'\.', '.')
clean_pattern(pattern) == Replace(Strip(pattern, {"^", "$"}), "\\.", ".")

\* the loop of apply_all_changes that rebuilds the path of every rule: a directory
\* rule loses its trailing separator
restore_pathspec(pattern) ==
    LET clean == clean_pattern(pattern) IN
    IF EndsWith(clean, "/") THEN RStrip(clean, {"/"}) ELSE clean

(***************************************************************************)
(* Bounds and the environment's ranges                                     *)
(***************************************************************************)
MaxRaw == 2     \* longest list of differing paths the backend reports
MaxSetups == 2  \* how many times the tool is started on the same working copy
MaxList == 3    \* longest list of paths resolve is applied to on its own

\* paths of the repository, in the order the backend lists them
UniverseSeq == << ".github/w", "README.md", "setup2/x", "src/a" >>
Universe == SeqToSet(UniverseSeq)

\* what a file of the working copy holds
Versions == {"head", "upstream", "conflict"}

\* the subsequences of s
RECURSIVE SubSeqs(_)
SubSeqs(s) ==
    IF Len(s) = 0 THEN {<<>>}
    ELSE LET rest == SubSeqs(Tail(s)) IN
         rest \cup {<<Head(s)>> \o r : r \in rest}

\* the lists the backend can report: distinct paths in its listing order
RawLists == {d \in SubSeqs(UniverseSeq) : Len(d) <= MaxRaw}

Absent == [exists |-> FALSE, content |-> ""]
File(text) == [exists |-> TRUE, content |-> text]
UserAttrs == File("*.png binary\n")

FsModes == {"ok", "denied", "full"}

(***************************************************************************)
(* Backend commands                                                        *)
(***************************************************************************)
Cmd(op, ref, path) == [op |-> op, ref |-> ref, path |-> path]

CmdRemoteV == Cmd("remote -v", "", "")
CmdRemoteAdd == Cmd("remote add", "upstream", "")
CmdFetch == Cmd("fetch", "upstream", "")
CmdLog == Cmd("log", "upstream/main", "")
CmdDiffNames == Cmd("diff --name-only", "HEAD..upstream/main", "")
CmdDiffText(file) == Cmd("diff", "HEAD..upstream/main", file)
CmdMerge == Cmd("merge --no-commit --no-ff", "upstream/main", "")
CmdCheckout(ref, path) == Cmd("checkout", ref, path)
CmdUnmerged == Cmd("diff --name-only --diff-filter=U", "", "")
CmdStatus == Cmd("status", "", "")
CmdConfig == Cmd("config", "merge.ours.driver", "")

\* git pathspec: the path itself, or anything below it as a directory
PathspecMatches(pathspec, p) == p = pathspec \/ StartsWith(p, pathspec \o "/")

RefVersion(ref) == IF ref = "HEAD" THEN "head" ELSE "upstream"

\* the working copy after the commands of cmds, run in order: a checkout restores
\* the paths its pathspec names from its reference, a merge leaves mw[p] in every
\* path p it touches
RECURSIVE RunCmds(_, _, _)
RunCmds(w, cmds, mw) ==
    IF Len(cmds) = 0 THEN w
    ELSE LET c == Head(cmds)
             w1 == CASE c.op = "checkout" ->
                          [p \in Universe |->
                              IF PathspecMatches(c.path, p) THEN RefVersion(c.ref) ELSE w[p]]
                     [] c = CmdMerge ->
                          [p \in Universe |-> IF p \in DOMAIN mw THEN mw[p] ELSE w[p]]
                     [] OTHER -> w
         IN RunCmds(w1, Tail(cmds), mw)

NoMerge == [p \in {} |-> "head"]

\* stdout of a command that lists paths, one per line
ListingOf(paths) == IF Len(paths) = 0 THEN "" ELSE Join(paths, NL) \o NL

\* run_cmd returns stdout.strip()
RunCmdOutput(stdout) == Strip(stdout, Whitespace)

RECURSIVE SelectSeq2(_, _)
SelectSeq2(s, keep) ==
    IF Len(s) = 0 THEN <<>>
    ELSE (IF keep[1] THEN <<Head(s)>> ELSE <<>>) \o SelectSeq2(Tail(s), Tail(keep))

UnmergedSeq(w) == SelectSeq2(UniverseSeq, [i \in 1..Len(UniverseSeq) |-> w[UniverseSeq[i]] = "conflict"])

(***************************************************************************)
(* _setup_merge_protection                                                 *)
(***************************************************************************)
RECURSIVE AttrLines(_)
AttrLines(k) ==
    IF k > Len(excluded_patterns) THEN ""
    ELSE LET clean == clean_pattern(excluded_patterns[k]) IN
         (IF EndsWith(clean, "/")
          THEN clean \o "* merge=ours\n"
          ELSE clean \o " merge=ours\n") \o AttrLines(k + 1)

\* the text written to a new .gitattributes; its first line is the comment
\* header of line 182, whose non-ASCII text is written in ASCII here
GeneratedAttrs == "# merge protection\n" \o AttrLines(1)

\* SetupAttrs without the existence check: the file is always rewritten
SetupAttrsOverwrite(attr, fs) ==
    CASE fs = "ok" -> [file |-> File(GeneratedAttrs), raised |-> FALSE]
      [] fs = "denied" -> [file |-> attr, raised |-> TRUE]
      [] OTHER -> [file |-> File(""), raised |-> TRUE]

\* the try block up to write_text: the file afterwards, and whether it raised.
\* "denied": the file cannot be opened for writing; "full": it is created and
\* the write fails.
SetupAttrs(attr, fs) ==
    IF ~attr.exists
    THEN CASE fs = "ok" -> [file |-> File(GeneratedAttrs), raised |-> FALSE]
           [] fs = "denied" -> [file |-> Absent, raised |-> TRUE]
           [] OTHER -> [file |-> File(""), raised |-> TRUE]
    ELSE [file |-> attr, raised |-> FALSE]

\* commands of _setup_merge_protection: the driver is configured unless the
\* try block raised before reaching it
SetupCmds(raised) == IF raised THEN <<>> ELSE <<CmdConfig>>

(***************************************************************************)
(* get_changed_files                                                       *)
(***************************************************************************)
\* [f.strip() for f in output.split('\n') if f.strip()]
RECURSIVE StripLines(_)
StripLines(lines) ==
    IF Len(lines) = 0 THEN <<>>
    ELSE LET f == Strip(Head(lines), Whitespace) IN
         (IF f # "" THEN <<f>> ELSE <<>>) \o StripLines(Tail(lines))

\* FilterFiles building its result from the front: the kept files come out in
\* reverse order
RECURSIVE FilterFilesReversed(_)
FilterFilesReversed(all_files) ==
    IF Len(all_files) = 0 THEN <<>>
    ELSE FilterFilesReversed(Tail(all_files))
         \o (IF ~is_excluded(Head(all_files)) THEN <<Head(all_files)>> ELSE <<>>)

\* the filtering loop: keep the files no pattern matches, in order
RECURSIVE FilterFiles(_)
FilterFiles(all_files) ==
    IF Len(all_files) = 0 THEN <<>>
    ELSE (IF ~is_excluded(Head(all_files)) THEN <<Head(all_files)>> ELSE <<>>)
         \o FilterFiles(Tail(all_files))

\* get_changed_files without the filtering loop
get_changed_files_unfiltered(stdout) ==
    LET output == RunCmdOutput(stdout) IN
    IF output = "" THEN <<>>
    ELSE StripLines(Split(output, NL))

get_changed_files(stdout) ==
    LET output == RunCmdOutput(stdout) IN
    IF output = "" THEN <<>>
    ELSE FilterFiles(StripLines(Split(output, NL)))

\* get_changed_files on every listing the backend can report
ResolvedFor == [d \in RawLists |-> get_changed_files(ListingOf(d))]

(***************************************************************************)
(* apply_all_changes and interactive_select                                *)
(***************************************************************************)
\* the HEAD checkouts of the restore loop, one per pattern, in order
RECURSIVE RestoreFrom(_)
RestoreFrom(k) ==
    IF k > Len(excluded_patterns) THEN <<>>
    ELSE <<CmdCheckout("HEAD", restore_pathspec(excluded_patterns[k]))>> \o RestoreFrom(k + 1)

RestoreCmds == RestoreFrom(1)

\* ApplyAllCmds refusing to merge after a failed protection setup
ApplyAllCmdsBlocked(mergeOK) ==
    IF setupFailed THEN <<>>
    ELSE IF mergeOK THEN <<CmdMerge>> \o RestoreCmds \o <<CmdStatus>>
    ELSE <<CmdMerge>>

\* ApplyAllCmds restoring the excluded paths before it merges
ApplyAllCmdsRestoreFirst(mergeOK) ==
    IF mergeOK THEN RestoreCmds \o <<CmdMerge, CmdStatus>>
    ELSE <<CmdMerge>>

\* ApplyAllCmds without the early return on a failed merge
ApplyAllCmdsAlwaysRestore(mergeOK) ==
    <<CmdMerge>> \o RestoreCmds \o <<CmdStatus>>

\* commands of apply_all_changes once confirmed, given the merge's result
ApplyAllCmds(mergeOK) ==
    IF mergeOK THEN <<CmdMerge>> \o RestoreCmds \o <<CmdStatus>>
    ELSE <<CmdMerge>>

\* file_map: str(i) -> files[i]
FileMapKeys(fs) == {IntToStr(i) : i \in 1..Len(fs)}

\* FileMapGet off by one: number i picks the file after files[i]
FileMapGetShifted(fs, key) ==
    LET i == CHOOSE n \in 1..Len(fs) : IntToStr(n) = key IN
    fs[IF i < Len(fs) THEN i + 1 ELSE 1]

FileMapGet(fs, key) == fs[CHOOSE i \in 1..Len(fs) : IntToStr(i) = key]

\* the for loop over choice.split(','): the selection so far, and whether every
\* number was valid (the loop stops at the first invalid one)
RECURSIVE ParseNums(_, _, _)
ParseNums(nums, fs, selected) ==
    IF Len(nums) = 0 THEN [valid |-> TRUE, selected |-> selected]
    ELSE LET num == Strip(Head(nums), Whitespace) IN
         IF num \in FileMapKeys(fs)
         THEN ParseNums(Tail(nums), fs, Append(selected, FileMapGet(fs, num)))
         ELSE [valid |-> FALSE, selected |-> selected]

\* ParseSelection applying the numbers read before an invalid one
ParseSelectionPartial(line, fs) ==
    LET choice == Strip(line, Whitespace) IN
    IF Lower(choice) = "q" THEN [kind |-> "quit", selected |-> <<>>]
    ELSE IF Lower(choice) = "a" THEN [kind |-> "apply", selected |-> fs]
    ELSE LET r == ParseNums(Split(choice, ","), fs, <<>>) IN
         IF Len(r.selected) > 0
         THEN [kind |-> "apply", selected |-> r.selected]
         ELSE [kind |-> "again", selected |-> <<>>]

\* one pass of the while loop of interactive_select on the raw input line
ParseSelection(line, fs) ==
    LET choice == Strip(line, Whitespace) IN
    IF Lower(choice) = "q" THEN [kind |-> "quit", selected |-> <<>>]
    ELSE IF Lower(choice) = "a" THEN [kind |-> "apply", selected |-> fs]
    ELSE LET r == ParseNums(Split(choice, ","), fs, <<>>) IN
         IF r.valid /\ Len(r.selected) > 0
         THEN [kind |-> "apply", selected |-> r.selected]
         ELSE [kind |-> "again", selected |-> <<>>]

\* the checkouts from the upstream reference, one per selected file, then status
RECURSIVE SelectCheckouts(_)
SelectCheckouts(selected) ==
    IF Len(selected) = 0 THEN <<>>
    ELSE <<CmdCheckout("upstream/main", Head(selected))>> \o SelectCheckouts(Tail(selected))

SelectCmds(selected) == SelectCheckouts(selected) \o <<CmdStatus>>

(***************************************************************************)
(* Operator inputs                                                         *)
(***************************************************************************)
YesNoInputs == {"y", "Y", "n", "", " y"}
RemoteInputs == {"y", "Y", "", "n", " y"}
MenuInputs == {"0", "1", "2", "3", "4", "5", "6", "7", " 2 "}
PreviewInputs == {"", "q", "Q", "x"}
SelectInputs == {"q", "Q", "a", " A ", "1", "2", "3", "1,2", "2, 1", "1,1", "1,3",
                 "1,x", "x,1", "", "1,", "01", "0"}
ContInputs == {"", "0", " 0 "}

Prompts == {"remote_prompt", "menu", "preview_prompt", "preview_next", "apply_confirm",
            "select_prompt", "editor_prompt", "cont_prompt"}
Terminal == {"exited", "aborted"}

(***************************************************************************)
(* main_loop                                                               *)
(***************************************************************************)
Step(name, cmds) ==
    /\ lastStep' = name
    /\ lastCmds' = cmds
    /\ fetchCode' = -1

StepFetch(name, cmds, code) ==
    /\ lastStep' = name
    /\ lastCmds' = cmds
    /\ fetchCode' = code

\* the step read no line into setup, confirm or choice and ran no merge
NoLocals == answer' = "" /\ mergeCode' = -1

\* FetchAndResolve without the break: a failed fetch still resolves and shows
\* the menu
FetchAndResolveNoBreak(name, cmds, rc) ==
    \E fetchOK \in (IF rc THEN BOOLEAN ELSE {FALSE}) :
        \E d \in RawLists :
            /\ upstreamDiff' = d
            /\ files' = ResolvedFor[d]
            /\ pc' = "menu"
            /\ exitCode' = -1
            /\ StepFetch(name, cmds \o <<CmdFetch, CmdDiffNames>>, IF fetchOK THEN 0 ELSE 1)

\* FetchAndResolve keeping a ChangeSet it already has: after a successful fetch
\* the list is resolved only when none is held
FetchAndResolveCached(name, cmds, rc) ==
    \E fetchOK \in (IF rc THEN BOOLEAN ELSE {FALSE}) :
        IF fetchOK
        THEN \E d \in RawLists :
                /\ upstreamDiff' = d
                /\ files' = (IF Len(files) > 0 THEN files ELSE ResolvedFor[d])
                /\ pc' = "menu"
                /\ exitCode' = -1
                /\ StepFetch(name, cmds \o <<CmdFetch, CmdLog, CmdDiffNames>>, 0)
        ELSE /\ pc' = "aborted"
             /\ exitCode' = 0
             /\ UNCHANGED <<files, upstreamDiff>>
             /\ StepFetch(name, cmds \o <<CmdFetch>>, 1)

\* lines 491-515: fetch; on failure leave the loop, on success resolve the
\* ChangeSet and show the menu.  rc: the upstream remote exists.
FetchAndResolve(name, cmds, rc) ==
    \E fetchOK \in (IF rc THEN BOOLEAN ELSE {FALSE}) :
        IF fetchOK
        THEN \E d \in RawLists :
                /\ upstreamDiff' = d
                /\ files' = ResolvedFor[d]
                /\ pc' = "menu"
                /\ exitCode' = -1
                /\ StepFetch(name, cmds \o <<CmdFetch, CmdLog, CmdDiffNames>>, 0)
        ELSE /\ pc' = "aborted"
             /\ exitCode' = 0
             /\ UNCHANGED <<files, upstreamDiff>>
             /\ StepFetch(name, cmds \o <<CmdFetch>>, 1)

\* lines 475-490: the head of one loop iteration; fs0 is `files` as the
\* iteration finds it
EnterLoop(name, cmds, rc, fs0) ==
    IF ~rc
    THEN /\ pc' = "remote_prompt"
         /\ exitCode' = -1
         /\ files' = fs0
         /\ UNCHANGED upstreamDiff
         /\ Step(name, cmds \o <<CmdRemoteV>>)
    ELSE FetchAndResolve(name, cmds \o <<CmdRemoteV>>, rc)

\* leave main_loop through break or an exception: main() returns code
Exit(name, cmds, code) ==
    /\ pc' = "exited"
    /\ exitCode' = code
    /\ Step(name, cmds)
    /\ UNCHANGED <<files, upstreamDiff>>

\* an option returned to main_loop: lines 535-545 print and ask to continue
ToContinue(name, cmds) ==
    /\ pc' = "cont_prompt"
    /\ Step(name, cmds)
    /\ UNCHANGED <<files, upstreamDiff, exitCode>>

\* main(): the two environment checks, UpstreamSync(), main_loop()
Main ==
    /\ NoLocals
    /\ previewIdx' = 0
    /\ conflictFiles' = <<>>
    /\ UNCHANGED <<fsMode, remoteConfigured, wc>>
    /\ \E inRepo \in BOOLEAN, gitOK \in BOOLEAN :
          IF ~inRepo \/ ~gitOK
          THEN /\ Exit("main", <<>>, 1)
               /\ UNCHANGED <<gitattributes, driverSet, setupFailed, attrsAtStart, setups>>
          ELSE LET r == SetupAttrs(gitattributes, fsMode) IN
               /\ gitattributes' = r.file
               /\ setupFailed' = r.raised
               /\ attrsAtStart' = gitattributes
               /\ setups' = setups + 1
               /\ driverSet' = (driverSet \/ (~r.raised /\ fsMode = "ok"))
               /\ EnterLoop("main", SetupCmds(r.raised), remoteConfigured, <<>>)

\* the tool is started for the first time on this working copy
Start == pc = "start" /\ Main

\* the tool is started again after an earlier run ended
Restart == pc \in Terminal /\ setups < MaxSetups /\ Main

envUnchanged == UNCHANGED <<gitattributes, driverSet, fsMode, setupFailed, attrsAtStart, setups>>

\* lines 481-489
RemotePrompt(input) ==
    /\ pc = "remote_prompt"
    /\ envUnchanged
    /\ answer' = input
    /\ mergeCode' = -1
    /\ UNCHANGED <<wc, previewIdx, conflictFiles>>
    /\ IF Lower(input) \in {"y", ""}
       THEN \E added \in BOOLEAN :
               /\ remoteConfigured' = added
               /\ FetchAndResolve("remote_prompt", <<CmdRemoteAdd>>, added)
       ELSE /\ UNCHANGED remoteConfigured
            /\ EnterLoop("remote_prompt", <<>>, remoteConfigured, files)

\* Menu without the empty-list checks of lines 250, 315 and 355: choices 1, 2
\* and 3 open their prompt whatever the ChangeSet holds
MenuNoEmptyCheck(input) ==
    LET choice == Strip(input, Whitespace) IN
    /\ pc = "menu"
    /\ envUnchanged
    /\ answer' = choice
    /\ mergeCode' = -1
    /\ UNCHANGED <<wc, remoteConfigured, previewIdx, conflictFiles>>
    /\ IF choice \in {"1", "2", "3"}
       THEN /\ pc' = CASE choice = "1" -> "preview_prompt"
                       [] choice = "2" -> "apply_confirm"
                       [] OTHER -> "select_prompt"
            /\ Step("menu", <<>>)
            /\ UNCHANGED <<files, upstreamDiff, exitCode>>
       ELSE IF choice = "0" THEN Exit("menu", <<>>, 0)
       ELSE ToContinue("menu", <<>>)

\* lines 515-533: dispatch of the menu choice up to the option's first prompt
Menu(input) ==
    LET choice == Strip(input, Whitespace) IN
    /\ pc = "menu"
    /\ envUnchanged
    /\ answer' = choice
    /\ mergeCode' = -1
    /\ UNCHANGED <<wc, remoteConfigured, previewIdx>>
    /\ CASE choice = "0" ->
              /\ Exit("menu", <<>>, 0)
              /\ UNCHANGED conflictFiles
         [] choice \in {"1", "2", "3"} ->
              /\ UNCHANGED conflictFiles
              /\ IF Len(files) = 0
                 THEN ToContinue("menu", <<>>)
                 ELSE /\ pc' = CASE choice = "1" -> "preview_prompt"
                                 [] choice = "2" -> "apply_confirm"
                                 [] OTHER -> "select_prompt"
                      /\ Step("menu", <<>>)
                      /\ UNCHANGED <<files, upstreamDiff, exitCode>>
         [] choice = "4" ->
              LET output == RunCmdOutput(ListingOf(UnmergedSeq(wc))) IN
              IF output # ""
              THEN /\ conflictFiles' = StripLines(Split(output, NL))
                   /\ pc' = "editor_prompt"
                   /\ Step("menu", <<CmdUnmerged>>)
                   /\ UNCHANGED <<files, upstreamDiff, exitCode>>
              ELSE /\ UNCHANGED conflictFiles
                   /\ ToContinue("menu", <<CmdUnmerged, CmdStatus>>)
         [] choice = "5" ->
              /\ UNCHANGED conflictFiles
              /\ ToContinue("menu", <<CmdStatus>>)
         [] choice = "6" ->
              /\ UNCHANGED conflictFiles
              /\ EnterLoop("menu", <<>>, remoteConfigured, files)
         [] OTHER ->
              /\ UNCHANGED conflictFiles
              /\ ToContinue("menu", <<>>)

\* preview_changes, lines 276-311: the answer to "view the changes?" and the
\* first file's diff
PreviewPrompt(input) ==
    /\ pc = "preview_prompt"
    /\ envUnchanged
    /\ NoLocals
    /\ UNCHANGED <<wc, remoteConfigured, conflictFiles>>
    /\ IF Lower(input) # "y"
       THEN /\ UNCHANGED previewIdx
            /\ ToContinue("preview_prompt", <<>>)
       ELSE IF 1 < Len(files)
            THEN /\ previewIdx' = 1
                 /\ pc' = "preview_next"
                 /\ Step("preview_prompt", <<CmdDiffText(files[1])>>)
                 /\ UNCHANGED <<files, upstreamDiff, exitCode>>
            ELSE /\ UNCHANGED previewIdx
                 /\ ToContinue("preview_prompt", <<CmdDiffText(files[1])>>)

\* PreviewNext forgetting the ChangeSet when the loop is left with q
PreviewNextQuitClears(input) ==
    /\ pc = "preview_next"
    /\ envUnchanged
    /\ NoLocals
    /\ UNCHANGED <<wc, remoteConfigured, conflictFiles, upstreamDiff, exitCode>>
    /\ previewIdx' = 0
    /\ pc' = "cont_prompt"
    /\ files' = (IF Lower(input) = "q" THEN <<>> ELSE files)
    /\ Step("preview_next", <<>>)

\* lines 308-311, then the next file's diff
PreviewNext(input) ==
    /\ pc = "preview_next"
    /\ envUnchanged
    /\ NoLocals
    /\ UNCHANGED <<wc, remoteConfigured, conflictFiles>>
    /\ IF Lower(input) = "q"
       THEN /\ previewIdx' = 0
            /\ ToContinue("preview_next", <<>>)
       ELSE LET idx == previewIdx + 1 IN
            IF idx < Len(files)
            THEN /\ previewIdx' = idx
                 /\ pc' = "preview_next"
                 /\ Step("preview_next", <<CmdDiffText(files[idx])>>)
                 /\ UNCHANGED <<files, upstreamDiff, exitCode>>
            ELSE /\ previewIdx' = 0
                 /\ ToContinue("preview_next", <<CmdDiffText(files[idx])>>)

\* what a merge of upstream/main may leave in the paths of the diff: each is
\* kept, taken from upstream or, when the merge fails, left in conflict
MergeWrites(ok) ==
    [SeqToSet(upstreamDiff) \cap Universe -> IF ok THEN {"head", "upstream"} ELSE Versions]

\* ApplyConfirm taking an empty line for a yes
ApplyConfirmDefaultYes(input) ==
    /\ pc = "apply_confirm"
    /\ envUnchanged
    /\ UNCHANGED <<remoteConfigured, previewIdx, conflictFiles>>
    /\ answer' = input
    /\ IF Lower(input) \notin {"y", ""}
       THEN /\ UNCHANGED wc
            /\ mergeCode' = -1
            /\ ToContinue("apply_confirm", <<>>)
       ELSE \E mergeOK \in BOOLEAN :
               \E mw \in MergeWrites(mergeOK) :
                  LET cmds == ApplyAllCmds(mergeOK) IN
                  /\ mergeCode' = (IF mergeOK THEN 0 ELSE 1)
                  /\ wc' = RunCmds(wc, cmds, mw)
                  /\ ToContinue("apply_confirm", cmds)

\* apply_all_changes, lines 325-351
ApplyConfirm(input) ==
    /\ pc = "apply_confirm"
    /\ envUnchanged
    /\ UNCHANGED <<remoteConfigured, previewIdx, conflictFiles>>
    /\ answer' = input
    /\ IF Lower(input) # "y"
       THEN /\ UNCHANGED wc
            /\ mergeCode' = -1
            /\ ToContinue("apply_confirm", <<>>)
       ELSE \E mergeOK \in BOOLEAN :
               \E mw \in MergeWrites(mergeOK) :
                  LET cmds == ApplyAllCmds(mergeOK) IN
                  /\ mergeCode' = (IF mergeOK THEN 0 ELSE 1)
                  /\ wc' = RunCmds(wc, cmds, mw)
                  /\ ToContinue("apply_confirm", cmds)

\* interactive_select, lines 367-398: one input line of the while loop
SelectPrompt(input) ==
    LET r == ParseSelection(input, files) IN
    /\ pc = "select_prompt"
    /\ envUnchanged
    /\ answer' = input
    /\ mergeCode' = -1
    /\ UNCHANGED <<remoteConfigured, previewIdx, conflictFiles>>
    /\ CASE r.kind = "quit" ->
              /\ UNCHANGED wc
              /\ ToContinue("select_prompt", <<>>)
         [] r.kind = "again" ->
              /\ UNCHANGED <<wc, files, upstreamDiff, exitCode>>
              /\ pc' = "select_prompt"
              /\ Step("select_prompt", <<>>)
         [] OTHER ->
              LET cmds == SelectCmds(r.selected) IN
              /\ wc' = RunCmds(wc, cmds, NoMerge)
              /\ ToContinue("select_prompt", cmds)

\* check_conflicts, lines 421-425: the editor is started for every conflict
\* file; a missing editor raises out of main_loop
EditorPrompt(input) ==
    /\ pc = "editor_prompt"
    /\ envUnchanged
    /\ NoLocals
    /\ UNCHANGED <<wc, remoteConfigured, previewIdx>>
    /\ conflictFiles' = <<>>
    /\ IF Lower(input) # "y"
       THEN ToContinue("editor_prompt", <<>>)
       ELSE \E editorOK \in BOOLEAN :
               IF editorOK
               THEN ToContinue("editor_prompt", <<>>)
               ELSE Exit("editor_prompt", <<>>, 1)

\* ContPrompt going back to the menu with the ChangeSet it has
ContPromptSameChangeSet(input) ==
    /\ pc = "cont_prompt"
    /\ envUnchanged
    /\ NoLocals
    /\ UNCHANGED <<wc, remoteConfigured, previewIdx, conflictFiles>>
    /\ IF Strip(input, Whitespace) = "0"
       THEN Exit("cont_prompt", <<>>, 0)
       ELSE /\ pc' = "menu"
            /\ Step("cont_prompt", <<>>)
            /\ UNCHANGED <<files, upstreamDiff, exitCode>>

\* lines 544-548
ContPrompt(input) ==
    /\ pc = "cont_prompt"
    /\ envUnchanged
    /\ NoLocals
    /\ UNCHANGED <<wc, remoteConfigured, previewIdx, conflictFiles>>
    /\ IF Strip(input, Whitespace) = "0"
       THEN Exit("cont_prompt", <<>>, 0)
       ELSE EnterLoop("cont_prompt", <<>>, remoteConfigured, files)

\* lines 571-572: KeyboardInterrupt at a prompt
Interrupt ==
    /\ pc \in Prompts
    /\ envUnchanged
    /\ NoLocals
    /\ UNCHANGED <<wc, remoteConfigured>>
    /\ previewIdx' = 0
    /\ conflictFiles' = <<>>
    /\ Exit("interrupt", <<>>, 0)

\* lines 573-577: input() raises at end of input
InputClosed ==
    /\ pc \in Prompts
    /\ envUnchanged
    /\ NoLocals
    /\ UNCHANGED <<wc, remoteConfigured>>
    /\ previewIdx' = 0
    /\ conflictFiles' = <<>>
    /\ Exit("input_closed", <<>>, 1)

\* lines 560-565: the operator interrupts while `git --version` runs; the bare
\* except takes the KeyboardInterrupt for a failed check and main() returns 1
GitCheckInterrupted ==
    /\ pc = "start"
    /\ envUnchanged
    /\ NoLocals
    /\ UNCHANGED <<wc, remoteConfigured, previewIdx, conflictFiles>>
    /\ Exit("git_check_interrupted", <<>>, 1)

\* the state before the tool is first started; attrs, modes, remotes: what the
\* working copy may look like
WfInit(attrs, modes, remotes) ==
    /\ pc = "start"
    /\ files = <<>>
    /\ previewIdx = 0
    /\ conflictFiles = <<>>
    /\ exitCode = -1
    /\ gitattributes \in attrs
    /\ driverSet = FALSE
    /\ fsMode \in modes
    /\ remoteConfigured \in remotes
    /\ upstreamDiff = <<>>
    /\ wc = [p \in Universe |-> "head"]
    /\ lastCmds = <<>>
    /\ lastStep = "none"
    /\ answer = ""
    /\ mergeCode = -1
    /\ fetchCode = -1
    /\ setupFailed = FALSE
    /\ attrsAtStart = Absent
    /\ setups = 0

Init ==
    /\ WfInit({Absent, UserAttrs}, FsModes, BOOLEAN)
    /\ probe = ""
    /\ verdict = "unset"
    /\ raw = <<>>
    /\ resolved = <<>>

Next ==
    \/ Start /\ UNCHANGED pvars
    \/ \E input \in RemoteInputs : RemotePrompt(input) /\ UNCHANGED pvars
    \/ \E input \in MenuInputs : Menu(input) /\ UNCHANGED pvars
    \/ \E input \in YesNoInputs : PreviewPrompt(input) /\ UNCHANGED pvars
    \/ \E input \in PreviewInputs : PreviewNext(input) /\ UNCHANGED pvars
    \/ \E input \in YesNoInputs : ApplyConfirm(input) /\ UNCHANGED pvars
    \/ \E input \in SelectInputs : SelectPrompt(input) /\ UNCHANGED pvars
    \/ \E input \in YesNoInputs : EditorPrompt(input) /\ UNCHANGED pvars
    \/ \E input \in ContInputs : ContPrompt(input) /\ UNCHANGED pvars
    \/ Interrupt /\ UNCHANGED pvars
    \/ InputClosed /\ UNCHANGED pvars
    \/ GitCheckInterrupted /\ UNCHANGED pvars

Spec == Init /\ [][Next]_vars

\* The tool started again and again on one working copy, the operator leaving
\* each run before any option is chosen.
NextRuns ==
    \/ Start /\ UNCHANGED pvars
    \/ Restart /\ UNCHANGED pvars
    \/ \E input \in RemoteInputs : RemotePrompt(input) /\ UNCHANGED pvars
    \/ \E input \in {"0", " 0 "} : Menu(input) /\ UNCHANGED pvars
    \/ Interrupt /\ UNCHANGED pvars
    \/ InputClosed /\ UNCHANGED pvars

SpecRuns == Init /\ [][NextRuns]_vars

(***************************************************************************)
(* The exclusion test as a function of the path alone                      *)
(***************************************************************************)
ProbeStems == {"", ".github", "Xgithub", "SRAFrontend", "setup", "README.md",
               "READMEXmd", "package.py", "packageXpy", ".gitignore",
               ".gitattributes", "docs/README.md", "docs/setup", "src"}
ProbeTails == {"", "/", "/x.txt", "2/x.txt", "x", ".bak", "/a/b"}

\* paths as get_changed_files tests them: stripped and not empty
ProbePaths == {st \o tl : st \in ProbeStems, tl \in ProbeTails} \ {""}

InitExcl ==
    /\ WfInit({Absent}, {"ok"}, {FALSE})
    /\ probe \in ProbePaths
    /\ verdict = "unset"
    /\ raw = <<>>
    /\ resolved = <<>>

\* lines 234-238 on one path
CheckExcluded ==
    /\ verdict = "unset"
    /\ verdict' = (IF is_excluded(probe) THEN "excluded" ELSE "kept")
    /\ UNCHANGED <<probe, raw, resolved, wfvars>>

NextExcl == CheckExcluded

SpecExcl == InitExcl /\ [][NextExcl]_vars

(***************************************************************************)
(* get_changed_files as a function of the backend's listing alone          *)
(***************************************************************************)
ResolvePaths == {"src/a.txt", ".github/workflows/ci.yml", "README.md", "setup2/x",
                 "docs/README.md"}

\* the lists the backend may report, in any order
RawInputs == UNION {[1..n -> ResolvePaths] : n \in 0..MaxList}

InitResolve ==
    /\ WfInit({Absent}, {"ok"}, {FALSE})
    /\ probe = ""
    /\ verdict = "unset"
    /\ raw \in RawInputs
    /\ resolved = <<>>

\* lines 223-243 on the listing of raw
Resolve ==
    /\ verdict = "unset"
    /\ verdict' = "resolved"
    /\ resolved' = get_changed_files(ListingOf(raw))
    /\ UNCHANGED <<probe, raw, wfvars>>

NextResolve == Resolve

SpecResolve == InitResolve /\ [][NextResolve]_vars

(***************************************************************************)
(* Properties                                                              *)
(***************************************************************************)
\* the rules as the specification words them: three directory prefixes with
\* their separator, four exact file names
DirPrefixes == {".github/", "SRAFrontend/", "setup/"}
FileNames == {"README.md", "package.py", ".gitignore", ".gitattributes"}
ClaimExcluded(path) == (\E d \in DirPrefixes : StartsWith(path, d)) \/ path \in FileNames

\* the path each rule protects
RulePaths == {".github", "SRAFrontend", "setup", "README.md", "package.py", ".gitignore",
              ".gitattributes"}

HasCmd(cmds, c) == \E i \in 1..Len(cmds) : cmds[i] = c
IsUpstreamCheckout(c) == c.op = "checkout" /\ c.ref = "upstream/main"
IsHeadCheckout(c) == c.op = "checkout" /\ c.ref = "HEAD"
UpstreamCheckoutPaths(cmds) == {cmds[i].path : i \in {k \in 1..Len(cmds) : IsUpstreamCheckout(cmds[k])}}
NoMutation(cmds) == \A i \in 1..Len(cmds) : cmds[i] # CmdMerge /\ cmds[i].op # "checkout"

\* C1: the ChangeSet the workflow holds after any resolve contains no path the
\* exclusion rules exclude, whatever list the backend reported and whatever was
\* applied before.
C1_NoExcludedInChangeSet ==
    \A i \in 1..Len(files) : ~ClaimExcluded(files[i])

C1_Witness ==
    /\ pc = "menu"
    /\ lastStep = "cont_prompt"
    /\ \E i \in 1..Len(upstreamDiff) : ClaimExcluded(upstreamDiff[i])
    /\ Len(files) > 0
    /\ \E p \in Universe : wc[p] = "upstream"

\* C2: a path is excluded exactly when it begins with a directory rule's prefix
\* and separator or equals a file rule's name.
C2_ExcludedExactly ==
    verdict # "unset" => ((verdict = "excluded") <=> ClaimExcluded(probe))

C2_Witness ==
    /\ verdict = "kept"
    /\ probe = "setup2/x.txt"

C4_RestoreAfterMerge ==
    (lastStep = "apply_confirm" /\ mergeCode = 0) =>
        /\ Len(lastCmds) > 0 /\ lastCmds[1] = CmdMerge
        /\ \A i \in 2..Len(lastCmds) : lastCmds[i] # CmdMerge
        /\ \A r \in RulePaths :
              \E i \in 2..Len(lastCmds) : lastCmds[i] = CmdCheckout("HEAD", r)
        /\ \A p \in Universe : ClaimExcluded(p) => wc[p] = "head"
        /\ pc = "cont_prompt"

C4_Witness ==
    /\ lastStep = "apply_confirm"
    /\ mergeCode = 0
    /\ \E i \in 1..Len(upstreamDiff) : ClaimExcluded(upstreamDiff[i])
    /\ \E p \in Universe : wc[p] = "upstream"

\* C5 as claimed: a failed merge leads into the conflict check (the unmerged-path
\* query is issued next) and issues no HEAD restore.
C5_Original ==
    (lastStep = "apply_confirm" /\ mergeCode = 1) =>
        /\ HasCmd(lastCmds, CmdUnmerged)
        /\ \A i \in 1..Len(lastCmds) : ~IsHeadCheckout(lastCmds[i])

\* C5 amended: a failed merge is reported and apply-all returns: the merge is the
\* only command issued (no unmerged-path query, no HEAD restore) and the workflow
\* waits at the continue prompt; the unmerged-path query is issued by menu choice
\* 4 alone.
C5_FailedMergeReturns ==
    /\ (lastStep = "apply_confirm" /\ mergeCode = 1) =>
           lastCmds = <<CmdMerge>> /\ pc = "cont_prompt"
    /\ HasCmd(lastCmds, CmdUnmerged) => lastStep = "menu"

C5_Witness ==
    /\ lastStep = "apply_confirm"
    /\ mergeCode = 1
    /\ \E p \in Universe : wc[p] = "conflict"

\* the selection an input line denotes, as 1-based indexes; {} for anything else
SelectionOf(line, n) ==
    CASE line \in {"a", " A "} -> 1..n
      [] line = "1" -> {1}
      [] line = "2" -> {2}
      [] line = "3" -> {3}
      [] line \in {"1,2", "2, 1"} -> {1, 2}
      [] line = "1,1" -> {1}
      [] line = "1,3" -> {1, 3}
      [] OTHER -> {}

\* C6: a step of the selection prompt that reads a valid selection issues a
\* checkout from the upstream reference for exactly the selected ChangeSet paths,
\* no merge and no checkout from HEAD, and leaves every other path of the working
\* copy as it was.
C6_SelectedExactly ==
    [][ (pc = "select_prompt" /\ lastStep' = "select_prompt") =>
          LET S == SelectionOf(answer', Len(files))
              picked == {files[i] : i \in S}
          IN (S # {} /\ S \subseteq 1..Len(files)) =>
                /\ UpstreamCheckoutPaths(lastCmds') = picked
                /\ \A i \in 1..Len(lastCmds') :
                      lastCmds'[i] # CmdMerge /\ ~IsHeadCheckout(lastCmds'[i])
                /\ \A p \in Universe \ picked : wc'[p] = wc[p]
                /\ \A p \in picked \cap Universe : wc'[p] = "upstream"
      ]_vars

C6_Witness ==
    /\ lastStep = "select_prompt"
    /\ pc = "cont_prompt"
    /\ answer = "2"
    /\ Len(files) = 2
    /\ wc[files[2]] = "upstream"
    /\ wc[files[1]] = "head"

\* C7 as claimed: continuing after an action performs no fetch.
C7_Original ==
    lastStep = "cont_prompt" => ~HasCmd(lastCmds, CmdFetch)

\* C7 amended: continuing after an action starts a new loop iteration: the remote
\* check is repeated and, with upstream configured, a fetch is performed and, when
\* it succeeds, the ChangeSet is resolved again from the diff the backend reports
\* then; menu choice 6 does the same without the continue prompt.
C7_ContinueRefetches ==
    ((lastStep = "cont_prompt" /\ pc # "exited")
        \/ (lastStep = "menu" /\ pc \in {"menu", "aborted", "remote_prompt"})) =>
        /\ Len(lastCmds) > 0 /\ lastCmds[1] = CmdRemoteV
        /\ pc = "remote_prompt" \/ HasCmd(lastCmds, CmdFetch)
        /\ pc = "menu" =>
              /\ HasCmd(lastCmds, CmdDiffNames)
              /\ SeqToSet(files) = {p \in SeqToSet(upstreamDiff) : ~ClaimExcluded(p)}

C7_Witness ==
    /\ lastStep = "cont_prompt"
    /\ pc = "menu"
    /\ HasCmd(lastCmds, CmdFetch)
    /\ \E p \in Universe : wc[p] = "upstream"

\* C8: a failed fetch ends the run: the step that ran it issued nothing after the
\* fetch (no diff, merge or checkout), the process is over with exit code 0, and
\* no step follows in that run.
C8_FetchFailureAborts ==
    fetchCode = 1 =>
        /\ pc = "aborted"
        /\ exitCode = 0
        /\ lastCmds[Len(lastCmds)] = CmdFetch
        /\ ~HasCmd(lastCmds, CmdDiffNames)
        /\ NoMutation(lastCmds)
        /\ ~ENABLED Next

C8_Witness ==
    /\ fetchCode = 1
    /\ pc = "aborted"
    /\ lastStep = "cont_prompt"

C10_SetupIdempotent ==
    /\ (setups >= 1 /\ attrsAtStart.exists) => gitattributes = attrsAtStart
    /\ setups >= 2 => gitattributes = attrsAtStart

C10_Witness ==
    /\ setups = 2
    /\ gitattributes = File(GeneratedAttrs)
    /\ attrsAtStart = File(GeneratedAttrs)

\* the causes for which main() returns 1: a failed environment check (no .git,
\* git not runnable), or an exception raised out of main_loop
EnvironmentCheckFailed == lastStep = "main" /\ pc = "exited"
RuntimeErrorRaised == lastStep = "input_closed" \/ (lastStep = "editor_prompt" /\ pc = "exited")
OperatorInterrupted == lastStep \in {"interrupt", "git_check_interrupted"}

\* C11 as claimed: a run that is over has exit code 1 exactly when an environment
\* check failed or a runtime error was raised, and exit code 0 otherwise; a run
\* the operator interrupted has exit code 0.
C11_Original ==
    pc \in Terminal =>
        /\ exitCode \in {0, 1}
        /\ exitCode = 1 <=> (EnvironmentCheckFailed \/ RuntimeErrorRaised)
        /\ OperatorInterrupted => exitCode = 0

FileOptionPrompts == {"preview_prompt", "preview_next", "apply_confirm", "select_prompt"}

\* C12: with an empty ChangeSet the menu is still shown, and menu choices 1, 2
\* and 3 return at once: the step issues no backend command at all (no diff, merge
\* or checkout), opens no selection or confirmation prompt and raises nothing, so
\* the workflow waits at the continue prompt; no prompt of a file option is ever
\* open on an empty ChangeSet.
C12_EmptyChangeSetHandled ==
    /\ (lastStep = "menu" /\ answer \in {"1", "2", "3"} /\ Len(files) = 0) =>
           /\ pc = "cont_prompt"
           /\ lastCmds = <<>>
           /\ exitCode = -1
    /\ pc \in FileOptionPrompts => Len(files) > 0

C12_Witness ==
    /\ lastStep = "menu"
    /\ answer = "3"
    /\ files = <<>>
    /\ upstreamDiff # <<>>
    /\ pc = "cont_prompt"

\* an input line of the selection prompt that names files, all of them by a
\* number of the list shown
ValidSelection(line, n) ==
    LET S == SelectionOf(line, n) IN S # {} /\ S \subseteq 1..n

MenuChoices == {"0", "1", "2", "3", "4", "5", "6"}

\* C13: a selection line with any invalid file number is rejected whole: the
\* step issues no command (no checkout for the valid numbers before it) and the
\* selection prompt is open again; a menu choice outside 0-6 issues no command and
\* the run goes on at the continue prompt; neither ends the run.
C13_InputErrorsRejected ==
    /\ (lastStep = "select_prompt" /\ answer \notin {"q", "Q"}
            /\ ~ValidSelection(answer, Len(files))) =>
           /\ pc = "select_prompt"
           /\ lastCmds = <<>>
           /\ exitCode = -1
    /\ (lastStep = "menu" /\ answer \notin MenuChoices) =>
           /\ pc = "cont_prompt"
           /\ lastCmds = <<>>
           /\ exitCode = -1

C13_Witness ==
    /\ lastStep = "select_prompt"
    /\ answer = "1,3"
    /\ Len(files) = 2
    /\ pc = "select_prompt"

\* one step in which the operator gives the input that declines or leaves at
\* the prompt that is open
QuitStep ==
    /\ \/ Menu("0")
       \/ ContPrompt("0")
       \/ PreviewPrompt("n")
       \/ PreviewNext("q")
       \/ ApplyConfirm("n")
       \/ SelectPrompt("q")
       \/ EditorPrompt("n")
       \/ RemotePrompt("n")
    /\ UNCHANGED pvars

\* the quitting step issues no remote creation, merge or checkout and ends at
\* position to
QuitsTo(to) ==
    ENABLED (/\ QuitStep
             /\ NoMutation(lastCmds')
             /\ ~HasCmd(lastCmds', CmdRemoteAdd)
             /\ pc' = to)

\* C14 as claimed: at every prompt the operator can leave by exit/quit inputs
\* alone, with no remote creation, merge or checkout on the way: the quitting
\* input ends the run, or leads to the continue prompt, where "0" ends the run.
C14_Original ==
    /\ pc \in Prompts => (QuitsTo("exited") \/ QuitsTo("cont_prompt"))
    /\ pc = "cont_prompt" => QuitsTo("exited")

\* the commands that only read: textual diffs, the unmerged-path query, status
ReadOnlyCmds(cmds) ==
    \A i \in 1..Len(cmds) :
        cmds[i].op \in {"diff", "diff --name-only --diff-filter=U", "status"}

\* the step runs inside Previewing, CheckingConflicts or ShowingStatus: it
\* answers one of their prompts, or is the menu step that enters them
InReadOnlyOption ==
    \/ pc \in {"preview_prompt", "preview_next", "editor_prompt"}
    \/ pc = "menu" /\ lastStep' = "menu" /\ answer' \in {"1", "4", "5"}

\* C15: every step of Previewing, CheckingConflicts and ShowingStatus issues only
\* reading commands (no merge, checkout or configuration write) and leaves the
\* ChangeSet, the working copy and the backend configuration as they were,
\* whatever the ChangeSet and the input, leaving the preview loop with q included.
C15_ReadOnlyOptions ==
    [][ InReadOnlyOption =>
          /\ ReadOnlyCmds(lastCmds')
          /\ files' = files
          /\ wc' = wc
          /\ gitattributes' = gitattributes
          /\ driverSet' = driverSet
          /\ remoteConfigured' = remoteConfigured
      ]_vars

C15_Witness ==
    /\ lastStep = "preview_next"
    /\ pc = "cont_prompt"
    /\ lastCmds = <<>>
    /\ Len(files) = 2
    /\ \E p \in Universe : wc[p] = "upstream"

\* the paths of a list the rules do not exclude, in the order of the list
Eligible(paths) == SelectSeq(paths, LAMBDA p : ~ClaimExcluded(p))

\* C16: resolve returns exactly the paths of the backend's list that no rule
\* excludes, each as often as listed and in the order listed; the list
\* src/a.txt, .github/workflows/ci.yml, README.md resolves to src/a.txt alone.
C16_ResolvePreservesOrder ==
    verdict = "resolved" =>
        /\ resolved = Eligible(raw)
        /\ raw = <<"src/a.txt", ".github/workflows/ci.yml", "README.md">> =>
               resolved = <<"src/a.txt">>

C16_Witness ==
    /\ verdict = "resolved"
    /\ raw = <<"src/a.txt", ".github/workflows/ci.yml", "README.md">>
    /\ resolved = <<"src/a.txt">>

\* the keep-local directive of each rule, as a line of the configuration file
Directives == {".github/* merge=ours", "SRAFrontend/* merge=ours", "setup/* merge=ours",
               "README.md merge=ours", "package.py merge=ours", ".gitignore merge=ours",
               ".gitattributes merge=ours"}

ConfigLines(attr) == IF attr.exists THEN SeqToSet(Split(attr.content, NL)) ELSE {}

\* C17 as claimed: whenever a step issues the merge of the upstream reference,
\* the configuration file holds the keep-local directive of every rule, whatever
\* the working copy held before the first run.
C17_Original ==
    HasCmd(lastCmds, CmdMerge) => Directives \subseteq ConfigLines(gitattributes)

\* C18: the ChangeSet the menu and every option work on is the one resolved from
\* the diff of the most recent successful fetch: every successful fetch is
\* followed, in the same step and before the menu is shown, by a resolve, and the
\* ChangeSet held is never one resolved before that fetch.
C18_ActionsUseFreshChangeSet ==
    /\ files = Eligible(upstreamDiff)
    /\ fetchCode = 0 =>
           /\ pc = "menu"
           /\ \E i, j \in 1..Len(lastCmds) :
                  i < j /\ lastCmds[i] = CmdFetch /\ lastCmds[j] = CmdDiffNames
    /\ pc \in FileOptionPrompts =>
           ~HasCmd(lastCmds, CmdFetch)

C18_Witness ==
    /\ lastStep = "select_prompt"
    /\ pc = "cont_prompt"
    /\ files = <<"setup2/x">>
    /\ wc["setup2/x"] = "upstream"
    /\ wc["src/a"] = "upstream"

\* C19: every checkout a step issues is either from the upstream reference, for
\* a path of the ChangeSet that no rule excludes and whose pathspec covers no
\* excluded path, or from HEAD, for the path of an exclusion rule; so no excluded
\* path is overwritten by a checkout from upstream, whatever the operator selects
\* (the whole list with a included).
C19_CheckoutsRespectRules ==
    \A i \in 1..Len(lastCmds) :
        LET c == lastCmds[i] IN
        /\ c.op = "checkout" => (IsUpstreamCheckout(c) \/ IsHeadCheckout(c))
        /\ IsUpstreamCheckout(c) =>
               /\ ~ClaimExcluded(c.path)
               /\ c.path \in SeqToSet(files)
               /\ \A p \in Universe : PathspecMatches(c.path, p) => ~ClaimExcluded(p)
        /\ IsHeadCheckout(c) => c.path \in RulePaths

C19_Witness ==
    /\ lastStep = "select_prompt"
    /\ answer = " A "
    /\ \E i \in 1..Len(upstreamDiff) : ClaimExcluded(upstreamDiff[i])
    /\ UpstreamCheckoutPaths(lastCmds) = {"src/a"}
    /\ wc["src/a"] = "upstream"

\* C20: a step issues the merge of the upstream reference only as the answer y
\* (in either case) to the apply-all confirmation; that prompt opens only from
\* the menu, on a non-empty ChangeSet, and the menu is shown only by a step whose
\* fetch succeeded and which resolved that ChangeSet.  Any other answer to the
\* confirmation issues no command and leaves the working copy and the backend
\* configuration as they were.
C20_MergeOnlyWhenConfirmed ==
    [][ /\ pc' = "menu" => fetchCode' = 0
        /\ pc' = "apply_confirm" =>
               /\ pc = "menu"
               /\ fetchCode = 0
               /\ files' = files
               /\ Len(files) > 0
        /\ HasCmd(lastCmds', CmdMerge) =>
               /\ pc = "apply_confirm"
               /\ answer' \in {"y", "Y"}
               /\ Len(files) > 0
               /\ files = Eligible(upstreamDiff)
        /\ (pc = "apply_confirm" /\ lastStep' = "apply_confirm"
                /\ answer' \notin {"y", "Y"}) =>
               /\ lastCmds' = <<>>
               /\ wc' = wc
               /\ gitattributes' = gitattributes
               /\ driverSet' = driverSet
               /\ remoteConfigured' = remoteConfigured
               /\ pc' = "cont_prompt"
      ]_vars

C20_Witness ==
    /\ lastStep = "apply_confirm"
    /\ answer = "Y"
    /\ lastCmds[1] = CmdMerge
    /\ Len(files) = 2
    /\ wc[files[1]] = "upstream"

====
